---- MODULE Spec2Model ----
(***************************************************************************)
(* Model of the resource index of arc_qqbot (core/resource_manager.py), of *)
(* its query handlers (plugins/plugin_arc_*.py), of the message facade     *)
(* (utils/message_handler.py) and of the upload pipeline                   *)
(* (core/image_uploader.py).                                               *)
(*                                                                         *)
(* Text is a sequence of one-character strings, so that lower(), strip(),  *)
(* the substring test, int() and str() are computed and not assumed.       *)
(* A value that may be absent (a missing JSON field, None) is a sequence   *)
(* of length 0 or 1.                                                       *)
(***************************************************************************)
EXTENDS Integers, Sequences, FiniteSets, TLC

VARIABLES
    files,      \* the three index files on disk, by category
    disk,       \* the paths that exist below the resource directory
    resources,  \* ResourceManager.resources
    strategy,   \* MessageHandler.strategy, with the origin of its message
    tasks,      \* the coroutines of the event loop and where each one stands
    last        \* the last call made on the program and what it returned

vars == <<files, disk, resources, strategy, tasks, last>>

----------------------------------------------------------------------------
(* Bounds of the model. *)

\* entries of one category in the lookup specification
MaxEntries == 2
\* keys of one weapon's level mapping
MaxLevels == 2
\* requested levels range over 0..MaxLevel (and the two-digit level 10)
MaxLevel == 2
\* queries are the strings of at most MaxQueryLen characters
MaxQueryLen == 2

----------------------------------------------------------------------------
(* Text. *)

Categories == {"maps", "weapons", "arc"}

\* str.lower() on one character
LowerChar(c) ==
    CASE c = "A" -> "a"
      [] c = "B" -> "b"
      [] OTHER -> c

\* str.lower()
Lower(s) == [i \in DOMAIN s |-> LowerChar(s[i])]

IsSpace(c) == c = " "

RECURSIVE LStrip(_)
LStrip(s) ==
    IF s # <<>> /\ IsSpace(Head(s)) THEN LStrip(Tail(s)) ELSE s

RECURSIVE RStrip(_)
RStrip(s) ==
    IF s # <<>> /\ IsSpace(s[Len(s)]) THEN RStrip(SubSeq(s, 1, Len(s) - 1)) ELSE s

\* str.strip()
Strip(s) == LStrip(RStrip(s))

\* the Python test `sub in s` on two strings
Contains(sub, s) ==
    \E i \in 0..(Len(s) - Len(sub)) : SubSeq(s, i + 1, i + Len(sub)) = sub

\* query.lower().strip() without the lower(): a lookup that forgets to fold case
NormalizeNoLower(query) == Strip(query)

\* query_lower = query.lower().strip()
Normalize(query) == Strip(Lower(query))

----------------------------------------------------------------------------
(* Entries of a category: the JSON object stored under one key. *)

\* resource.get('name', '')
NameOrEmpty(e) == IF e.name = <<>> THEN <<>> ELSE e.name[1]

\* resource.get('name', key)
NameOrKey(e) == IF e.name = <<>> THEN e.key ELSE e.name[1]

\* a path below the resource directory; file "" is the directory itself
\* (pathlib: Path(d) / '' = Path(d))
PathOf(dir, file) == [dir |-> dir, file |-> file]

\* Path.exists()
Exists(path) == path \in disk

\* the first loop of find_resource tests an entry by substring: a lookup with
\* no exact phase
ExactHitBySubstring(e, q) ==
    \/ Contains(q, Lower(e.key))
    \/ Contains(q, Lower(NameOrEmpty(e)))
    \/ \E i \in DOMAIN e.aliases : Contains(q, Lower(e.aliases[i]))

\* the first loop of find_resource with its alias test dropped
ExactHitNoAlias(e, q) ==
    \/ Lower(e.key) = q
    \/ Lower(NameOrEmpty(e)) = q

\* the two tests of the first loop of find_resource, on one entry
ExactHit(e, q) ==
    \/ Lower(e.key) = q
    \/ Lower(NameOrEmpty(e)) = q
    \/ \E i \in DOMAIN e.aliases : Lower(e.aliases[i]) = q

\* the second loop of find_resource with its alias test dropped
FuzzyHitNoAlias(e, q) ==
    \/ Contains(q, Lower(e.key))
    \/ Contains(q, Lower(NameOrEmpty(e)))

\* the two tests of the second loop of find_resource, on one entry
FuzzyHit(e, q) ==
    \/ Contains(q, Lower(e.key))
    \/ Contains(q, Lower(NameOrEmpty(e)))
    \/ \E i \in DOMAIN e.aliases : Contains(q, Lower(e.aliases[i]))

\* the index of the first entry, in insertion order, that a loop returns on
\* (0: the loop ends without returning)
FirstExact(entries, q) ==
    IF \E i \in DOMAIN entries : ExactHit(entries[i], q)
    THEN CHOOSE i \in DOMAIN entries :
            /\ ExactHit(entries[i], q)
            /\ \A j \in 1..(i - 1) : ~ExactHit(entries[j], q)
    ELSE 0

FirstFuzzy(entries, q) ==
    IF \E i \in DOMAIN entries : FuzzyHit(entries[i], q)
    THEN CHOOSE i \in DOMAIN entries :
            /\ FuzzyHit(entries[i], q)
            /\ \A j \in 1..(i - 1) : ~FuzzyHit(entries[j], q)
    ELSE 0

\* ResourceManager._build_resource_info (description and type are copied
\* through unread and are left out)
_build_resource_info(category, e) ==
    [ key      |-> e.key,
      category |-> category,
      name     |-> NameOrKey(e),
      filename |-> e.filename,
      file_path |-> IF e.filename = <<>> THEN <<>>
                    ELSE <<PathOf(category, e.filename[1])>>,
      aliases  |-> e.aliases,
      exists   |-> IF e.filename = <<>> THEN FALSE
                   ELSE Exists(PathOf(category, e.filename[1])) ]

\* what a call returns: a value, None, or a raised exception
Returned(v) == [status |-> "value", value |-> <<v>>]
None == [status |-> "none", value |-> <<>>]
Raised == [status |-> "raise", value |-> <<>>]

\* a category's in-memory value: the mapping read from its file (its entries
\* in insertion order), or a JSON value that is no mapping and has no len()
\* (a number, true, false, null)
Mapping(entries) == [kind |-> "mapping", entries |-> entries]
Scalar == [kind |-> "scalar", entries |-> <<>>]

\* ResourceManager.find_resource
find_resource(category, query) ==
    IF category \notin DOMAIN resources THEN None
    ELSE IF resources[category].kind # "mapping" THEN Raised
    ELSE LET entries == resources[category].entries
             q == Normalize(query)
             x == FirstExact(entries, q)
             f == FirstFuzzy(entries, q)
         IN  IF x # 0 THEN Returned(_build_resource_info(category, entries[x]))
             ELSE IF f # 0 THEN Returned(_build_resource_info(category, entries[f]))
             ELSE None

----------------------------------------------------------------------------
(* Leveled weapons. *)

Digits == <<"0", "1", "2", "3", "4", "5", "6", "7", "8", "9">>

IsDigit(c) == \E d \in DOMAIN Digits : Digits[d] = c

DigitValue(c) == (CHOOSE d \in DOMAIN Digits : Digits[d] = c) - 1

\* whether int(s) returns: surrounding whitespace is skipped and what is left
\* must be a run of decimal digits, leading zeros allowed (signs and
\* underscores are not among the characters of the model)
IsIntLiteral(s) ==
    /\ Strip(s) # <<>>
    /\ \A i \in DOMAIN Strip(s) : IsDigit(Strip(s)[i])

RECURSIVE DigitsValue(_)
DigitsValue(s) ==
    IF s = <<>> THEN 0
    ELSE 10 * DigitsValue(SubSeq(s, 1, Len(s) - 1)) + DigitValue(s[Len(s)])

\* int(s), where it returns
IntOf(s) == DigitsValue(Strip(s))

\* str(n) for n >= 0: the shortest decimal spelling
RECURSIVE StrOf(_)
StrOf(n) ==
    IF n < 10 THEN <<Digits[n + 1]>>
    ELSE Append(StrOf(n \div 10), Digits[(n % 10) + 1])

RECURSIVE Insert(_, _)
Insert(x, s) ==
    IF s = <<>> THEN <<x>>
    ELSE IF x < Head(s) THEN <<x>> \o s
    ELSE <<Head(s)>> \o Insert(x, Tail(s))

\* sorted() on a list of integers: ascending, duplicates kept
RECURSIVE Sorted(_)
Sorted(s) == IF s = <<>> THEN <<>> ELSE Insert(s[Len(s)], Sorted(SubSeq(s, 1, Len(s) - 1)))

\* levels_available = sorted([int(lv) for lv in levels_data.keys()]),
\* where every int() returns
LevelsAvailable(levels_data) ==
    Sorted([i \in DOMAIN levels_data |-> IntOf(levels_data[i].key)])

\* whether the list comprehension raises ValueError
LevelsRaise(levels_data) ==
    \E i \in DOMAIN levels_data : ~IsIntLiteral(levels_data[i].key)

InList(x, s) == \E i \in DOMAIN s : s[i] = x

\* levels_data.get(str(level), {}): the value stored under exactly that key
LevelEntry(levels_data, level) ==
    IF \E i \in DOMAIN levels_data : levels_data[i].key = StrOf(level)
    THEN (LET i == CHOOSE i \in DOMAIN levels_data : levels_data[i].key = StrOf(level)
          IN  levels_data[i].filename)
    ELSE <<>>

\* the 'level_info' of a resolved level
LevelInfo(levels_data, level) ==
    LET fn == LevelEntry(levels_data, level)
        file_path == PathOf("weapons", IF fn = <<>> THEN "" ELSE fn[1])
    IN  [ filename  |-> fn,
          file_path |-> file_path,
          exists    |-> Exists(file_path) ]

\* the result of find_weapon_with_level; a key the Python dict does not carry
\* is an empty sequence here
WeaponResult(has_levels, weapon, levels_available, need, invalid, selected, info) ==
    [ has_levels           |-> has_levels,
      weapon_data          |-> weapon,
      levels_available     |-> levels_available,
      need_level_selection |-> need,
      invalid_level        |-> invalid,
      selected_level       |-> selected,
      level_info           |-> info ]

\* an absent level answered as if no level had been asked for
InvalidLevelUnflagged(weapon, levels_available, level) ==
    WeaponResult(TRUE, weapon, levels_available, <<TRUE>>, <<>>, <<>>, <<>>)

\* the branch `if level not in levels_available`
InvalidLevelResult(weapon, levels_available, level) ==
    WeaponResult(TRUE, weapon, levels_available, <<TRUE>>, <<level>>, <<>>, <<>>)

\* self.resources['weapons'].get(weapon_key, {})
WeaponData(weapon_key) ==
    LET entries == resources["weapons"].entries
    IN  entries[CHOOSE i \in DOMAIN entries : entries[i].key = weapon_key]

\* ResourceManager.find_weapon_with_level; level is <<>> for None
find_weapon_with_level(query, level) ==
    LET found == find_resource("weapons", query)
    IN  IF found.status # "value" THEN found
        ELSE
        LET weapon == found.value[1]
            levels_data == WeaponData(weapon.key).levels
        IN  IF levels_data = <<>>
            THEN Returned(WeaponResult(FALSE, weapon, <<>>, <<>>, <<>>, <<>>, <<>>))
            ELSE IF LevelsRaise(levels_data) THEN Raised
            ELSE
            LET levels_available == LevelsAvailable(levels_data)
            IN  IF level = <<>>
                THEN Returned(WeaponResult(TRUE, weapon, levels_available,
                                           <<TRUE>>, <<>>, <<>>, <<>>))
                ELSE IF ~InList(level[1], levels_available)
                THEN Returned(InvalidLevelResult(weapon, levels_available, level[1]))
                ELSE Returned(WeaponResult(TRUE, weapon, levels_available, <<FALSE>>,
                                           <<>>, level,
                                           <<LevelInfo(levels_data, level[1])>>))

----------------------------------------------------------------------------
(* The /weapon handler. *)

\* `level = 1` when the command names no level
DefaultLevel == 1

\* the level of the second resolution, find_weapon_with_level(query, 1)
FallbackLevel == 1

\* what handler.send_image_from_path does with a path: it returns True, it
\* returns False, or a fault inside it sends a warning text and returns False
SendOutcomes == {"sent", "failed", "fault"}

\* what a handling shows the user: the texts sent, the path handed to
\* send_image_from_path (if any) and whether that call returned True
Shown(texts, image, delivered) ==
    [texts |-> texts, image |-> image, delivered |-> delivered]

\* the tail of both _send_* methods: send_image_from_path and its result
SendImage(path, send) ==
    CASE send = "sent"   -> Shown(<<>>, <<path>>, TRUE)
      [] send = "failed" -> Shown(<<"send_failed">>, <<path>>, FALSE)
      [] send = "fault"  -> Shown(<<"image_warning", "send_failed">>, <<path>>, FALSE)

\* ARCWeaponPlugin._send_simple_weapon
_send_simple_weapon(weapon_data, send) ==
    IF ~weapon_data.exists THEN Shown(<<"file_missing">>, <<>>, FALSE)
    ELSE SendImage(weapon_data.file_path[1], send)

\* ARCWeaponPlugin._send_weapon_with_level
_send_weapon_with_level(weapon_data, result, send) ==
    LET level_info == result.level_info[1]
    IN  IF ~level_info.exists THEN Shown(<<"file_missing">>, <<>>, FALSE)
        ELSE SendImage(level_info.file_path, send)

\* result.get('need_level_selection', False)
NeedsSelection(result) ==
    result.need_level_selection # <<>> /\ result.need_level_selection[1]

\* one handling of ARCWeaponPlugin._query_weapon: whether it resolved a second
\* time, the resolution it handed to _send_weapon_with_level (if any), and
\* what it showed
Handling(fallback, result, shown) ==
    [fallback |-> fallback, result |-> result, shown |-> shown]

\* a second resolution that passes no level
SecondResolutionUnleveled(query) == find_weapon_with_level(query, <<>>)

\* result = self.resource_manager.find_weapon_with_level(query, 1)
SecondResolution(query) == find_weapon_with_level(query, <<FallbackLevel>>)

\* ARCWeaponPlugin._query_weapon; an exception raised in its body ends in the
\* `except` branch
QueryWeapon(query, level, send) ==
    LET first == IF level = <<>> THEN DefaultLevel ELSE level[1]
        r1 == find_weapon_with_level(query, <<first>>)
        r2 == SecondResolution(query)
    IN  IF r1.status = "raise"
        THEN Handling(FALSE, <<>>, Shown(<<"query_failed">>, <<>>, FALSE))
        ELSE IF r1.status = "none"
        THEN Handling(FALSE, <<>>, Shown(<<"not_found">>, <<>>, FALSE))
        ELSE IF ~r1.value[1].has_levels
        THEN Handling(FALSE, <<>>, _send_simple_weapon(r1.value[1].weapon_data, send))
        ELSE IF ~NeedsSelection(r1.value[1])
        THEN Handling(FALSE, r1.value,
                      _send_weapon_with_level(r1.value[1].weapon_data, r1.value[1], send))
        ELSE IF r2.status = "raise"
        THEN Handling(TRUE, <<>>, Shown(<<"query_failed">>, <<>>, FALSE))
        ELSE IF r2.status = "none" \/ NeedsSelection(r2.value[1])
        THEN Handling(TRUE, <<>>, Shown(<<"data_error">>, <<>>, FALSE))
        ELSE Handling(TRUE, r2.value,
                      _send_weapon_with_level(r1.value[1].weapon_data, r2.value[1], send))

----------------------------------------------------------------------------
(* Loading. *)

\* the states of an index file: absent, unreadable or not JSON, a JSON value
\* that is no mapping, or a mapping
Missing == [kind |-> "missing", entries |-> <<>>]
Corrupt == [kind |-> "corrupt", entries |-> <<>>]

\* a loader that empties a category it could not read
LoadedOrCleared(category) ==
    IF files[category].kind \in {"missing", "corrupt"} THEN Mapping(<<>>)
    ELSE files[category]

\* one pass of the loop of load_resources: the category's value after it
\* (`continue` on a missing file, an exception before the assignment on a file
\* that cannot be read or parsed, the assignment otherwise)
Loaded(category) ==
    IF files[category].kind \in {"missing", "corrupt"} THEN resources[category]
    ELSE files[category]

\* whether the pass ends in the `except` branch: open() or json.loads raised,
\* or len() of the value just assigned did
LoadRaises(category) == files[category].kind \in {"corrupt", "scalar"}

\* the flag `success` when the loop ends
LoadSuccess == \A c \in Categories : ~LoadRaises(c)

\* whether `total = sum(len(r) for r in self.resources.values())`, which is
\* outside the try, raises: some category holds a value without len()
TotalRaises == \E c \in Categories : Loaded(c).kind = "scalar"

\* ResourceManager.load_resources: what the call returns
load_resources == IF TotalRaises THEN Raised ELSE Returned(LoadSuccess)

----------------------------------------------------------------------------
(* Calls. *)

\* `last` between two calls
Idle == [op |-> "idle"]

\* no MessageHandler has a strategy
NoStrategy == <<>>

\* no coroutine is scheduled
NoTasks == <<>>

\* the caller has taken the result of the last call; the next call may begin
Return ==
    /\ last # Idle
    /\ last' = Idle
    /\ UNCHANGED <<files, disk, resources, strategy, tasks>>

\* ResourceManager.reload_resources
reload_resources ==
    /\ resources' = [c \in Categories |-> Loaded(c)]
    /\ last' = [op |-> "reload_resources", before |-> resources, ret |-> load_resources]
    /\ UNCHANGED <<files, disk, strategy, tasks>>

FindResource(category, query) ==
    /\ last = Idle
    /\ last' = [op |-> "find_resource", category |-> category, query |-> query,
                ret |-> find_resource(category, query)]
    /\ UNCHANGED <<files, disk, resources, strategy, tasks>>

FindWeaponWithLevel(query, level) ==
    /\ last = Idle
    /\ last' = [op |-> "find_weapon_with_level", query |-> query, level |-> level,
                ret |-> find_weapon_with_level(query, level)]
    /\ UNCHANGED <<files, disk, resources, strategy, tasks>>

_query_weapon(query, level, send) ==
    /\ last = Idle
    /\ last' = [op |-> "_query_weapon", query |-> query, level |-> level,
                ret |-> QueryWeapon(query, level, send)]
    /\ UNCHANGED <<files, disk, resources, strategy, tasks>>

----------------------------------------------------------------------------
(* The lookup specification: find_resource on every small category. *)

Entry(key, name, aliases, filename, levels) ==
    [key |-> key, name |-> name, aliases |-> aliases, filename |-> filename,
     levels |-> levels]

KeyPool == {<<"a">>, <<"a", "b">>, <<"B", "a">>}
NamePool == {<<>>, << <<"A">> >>, << <<"a", "B">> >>}
AliasPool == {<<>>, << <<"A">> >>, << <<"b", " ">>, <<"a", "b">> >>}

LookupEntries ==
    {Entry(k, n, a, <<>>, <<>>) : k \in KeyPool, n \in NamePool, a \in AliasPool}

\* the keys of a JSON object are distinct
DistinctKeys(entries) ==
    \A i, j \in DOMAIN entries : i # j => entries[i].key # entries[j].key

LookupCatalogues ==
    {es \in UNION {[1..n -> LookupEntries] : n \in 0..MaxEntries} : DistinctKeys(es)}

QueryChars == {"a", "A", "b", " "}
Queries == UNION {[1..n -> QueryChars] : n \in 0..MaxQueryLen}

\* the categories a caller names: the populated one, an empty one and one the
\* index lacks
CategoryArgs == {"maps", "weapons", "items"}

InitFind ==
    /\ \E es \in LookupCatalogues :
          resources = [c \in Categories |->
                          IF c = "maps" THEN Mapping(es) ELSE Mapping(<<>>)]
    /\ files = resources
    /\ disk = {}
    /\ strategy = NoStrategy
    /\ tasks = NoTasks
    /\ last = Idle

NextFind ==
    \/ \E c \in CategoryArgs, q \in Queries : FindResource(c, q)
    \/ Return

SpecFind == InitFind /\ [][NextFind]_vars

----------------------------------------------------------------------------
(* The weapon specification: one weapon, every small level mapping. *)

LevelKeyPool == {<<"1">>, <<"0", "1">>, <<"2">>, <<"1", "0">>, <<"x">>}
FilePool == {"f1", "f2"}

LevelValues == {[key |-> k, filename |-> f] :
                   k \in LevelKeyPool, f \in {<<>>} \cup {<<n>> : n \in FilePool}}

LevelMaps ==
    {ls \in UNION {[1..n -> LevelValues] : n \in 0..MaxLevels} : DistinctKeys(ls)}

WeaponQueries == {<<"a">>, <<"b">>}
LevelArgs == {<<>>} \cup {<<n>> : n \in (0..MaxLevel) \cup {10}}

\* the weapons directory exists as soon as a file of it does
DiskStates ==
    {{}} \cup {{PathOf("weapons", "")} \cup {PathOf("weapons", n) : n \in fs} :
                  fs \in SUBSET FilePool}

InitWeapon ==
    /\ \E ls \in LevelMaps :
          resources = [c \in Categories |->
                          IF c = "weapons"
                          THEN Mapping(<<Entry(<<"a">>, <<>>, <<>>, <<"f1">>, ls)>>)
                          ELSE Mapping(<<>>)]
    /\ files = resources
    /\ disk \in DiskStates
    /\ strategy = NoStrategy
    /\ tasks = NoTasks
    /\ last = Idle

NextWeapon ==
    \/ \E q \in WeaponQueries, l \in LevelArgs : FindWeaponWithLevel(q, l)
    \/ \E q \in WeaponQueries, l \in LevelArgs, s \in SendOutcomes : _query_weapon(q, l, s)
    \/ Return

SpecWeapon == InitWeapon /\ [][NextWeapon]_vars

----------------------------------------------------------------------------
(* The index and its files: construction, rewrites of the files, reloads. *)

Versions == {<<>>, <<Entry(<<"a">>, <<>>, <<>>, <<>>, <<>>)>>}

FileStates == {Missing, Corrupt, Scalar} \cup {Mapping(es) : es \in Versions}

\* an index file is written, or damaged, between two loads
WriteFile(category, f) ==
    /\ f # Missing
    /\ files' = [files EXCEPT ![category] = f]
    /\ last' = Idle
    /\ UNCHANGED <<disk, resources, strategy, tasks>>

\* an index file is deleted between two loads
DeleteFile(category) ==
    /\ files' = [files EXCEPT ![category] = Missing]
    /\ last' = Idle
    /\ UNCHANGED <<disk, resources, strategy, tasks>>

\* ResourceManager.__init__: empty categories, then load_resources(); the
\* constructor returns only if load_resources does
Init ==
    /\ files \in [Categories -> FileStates \ {Scalar}]
    /\ disk = {}
    /\ resources = [c \in Categories |->
                       IF files[c].kind \in {"missing", "corrupt"} THEN Mapping(<<>>)
                       ELSE files[c]]
    /\ strategy = NoStrategy
    /\ tasks = NoTasks
    /\ last = Idle

Next ==
    \/ \E c \in Categories, f \in FileStates : WriteFile(c, f)
    \/ \E c \in Categories : DeleteFile(c)
    \/ reload_resources

Spec == Init /\ [][Next]_vars

----------------------------------------------------------------------------
(* Properties of find_resource, checked under SpecFind. *)

\* a finished call of find_resource on a category of the index
FoundCall == last.op = "find_resource" /\ last.category \in Categories

\* the entries the call searched, and the query as the claims normalize it
Searched == resources[last.category].entries
Asked == Strip(Lower(last.query))

\* an entry's key, name or one of its aliases is the text q, letter case
\* apart (an entry without a name has the empty name)
EqualsQuery(e, q) ==
    \/ Lower(e.key) = q
    \/ Lower(IF e.name = <<>> THEN <<>> ELSE e.name[1]) = q
    \/ \E i \in DOMAIN e.aliases : Lower(e.aliases[i]) = q

\* an entry's key or name is the text q, letter case apart
KeyOrNameEquals(e, q) ==
    \/ Lower(e.key) = q
    \/ Lower(IF e.name = <<>> THEN <<>> ELSE e.name[1]) = q

\* an entry's key or name contains the text q, letter case apart
KeyOrNameContains(e, q) ==
    \/ Contains(q, Lower(e.key))
    \/ Contains(q, Lower(IF e.name = <<>> THEN <<>> ELSE e.name[1]))

\* an entry's key, name or one of its aliases contains the text q
ContainsQuery(e, q) ==
    \/ KeyOrNameContains(e, q)
    \/ \E i \in DOMAIN e.aliases : Contains(q, Lower(e.aliases[i]))

\* the call returned the i-th entry searched
ReturnedEntry(i) ==
    /\ last.ret.status = "value"
    /\ last.ret.value[1].key = Searched[i].key

\* i is the first index of the entries searched at which P holds
IsFirst(i, P(_)) ==
    /\ i \in DOMAIN Searched
    /\ P(Searched[i])
    /\ \A j \in 1..(i - 1) : ~P(Searched[j])

EqualsAsked(e) == EqualsQuery(e, Asked)
KeyOrNameEqualsAsked(e) == KeyOrNameEquals(e, Asked)
KeyOrNameContainsAsked(e) == KeyOrNameContains(e, Asked)
ContainsAsked(e) == ContainsQuery(e, Asked)

\* C1: whenever some entry of the category has a key, name or alias equal to
\* the normalized query, find_resource returns an entry that has one too,
\* whatever the insertion order; it never answers with an entry that only
\* contains the query.
C1_ExactWins ==
    FoundCall /\ (\E i \in DOMAIN Searched : EqualsAsked(Searched[i]))
        => \E i \in DOMAIN Searched : ReturnedEntry(i) /\ EqualsAsked(Searched[i])

\* C1's case: the first entry only contains the query, a later one equals it,
\* and the later one is returned.
C1_Witness ==
    /\ FoundCall
    /\ Len(Searched) >= 2
    /\ ContainsAsked(Searched[1]) /\ ~EqualsAsked(Searched[1])
    /\ EqualsAsked(Searched[2])
    /\ ReturnedEntry(2)

\* C2 as stated: if some entry's key or name equals the query, the result is
\* the first such entry, even when an earlier entry matches by alias.
C2_KeyNameBeforeAlias ==
    FoundCall =>
        \A i \in DOMAIN Searched : IsFirst(i, KeyOrNameEqualsAsked) => ReturnedEntry(i)

\* C2 as amended: the exact phase is one pass; the result is the first entry,
\* in insertion order, whose key, name or alias equals the query, so an
\* earlier alias match wins over a later key or name match.
C2_FirstExactInOrder ==
    FoundCall =>
        \A i \in DOMAIN Searched : IsFirst(i, EqualsAsked) => ReturnedEntry(i)

\* C2's case: the first entry matches by alias only, the second by key or
\* name, and the first is returned.
C2_Witness ==
    /\ FoundCall
    /\ Len(Searched) >= 2
    /\ EqualsAsked(Searched[1]) /\ ~KeyOrNameEqualsAsked(Searched[1])
    /\ KeyOrNameEqualsAsked(Searched[2])
    /\ ReturnedEntry(1)

\* C3 as stated: with no exact match, the result is the first entry whose key
\* or name contains the query, even when an earlier entry matches by an alias
\* substring.
C3_KeyNameBeforeAliasFuzzy ==
    FoundCall /\ (\A i \in DOMAIN Searched : ~EqualsAsked(Searched[i])) =>
        \A i \in DOMAIN Searched : IsFirst(i, KeyOrNameContainsAsked) => ReturnedEntry(i)

\* C3 as amended: with no exact match, the result is the first entry, in
\* insertion order, whose key, name or alias contains the query, and None
\* when there is none.
C3_FirstFuzzyInOrder ==
    FoundCall /\ (\A i \in DOMAIN Searched : ~EqualsAsked(Searched[i])) =>
        /\ \A i \in DOMAIN Searched : IsFirst(i, ContainsAsked) => ReturnedEntry(i)
        /\ (\A i \in DOMAIN Searched : ~ContainsAsked(Searched[i]))
               => last.ret.status = "none"

\* C3's case: no exact match, the first entry contains the query in an alias
\* only, the second in its key or name, and the first is returned.
C3_Witness ==
    /\ FoundCall
    /\ Len(Searched) >= 2
    /\ \A i \in DOMAIN Searched : ~EqualsAsked(Searched[i])
    /\ ContainsAsked(Searched[1]) /\ ~KeyOrNameContainsAsked(Searched[1])
    /\ KeyOrNameContainsAsked(Searched[2])
    /\ ReturnedEntry(1)

\* C4: a query that equals an alias up to letter case and surrounding
\* whitespace returns an entry, and a query returns what its lowercased,
\* trimmed form returns (so two queries that differ only in case or
\* surrounding whitespace return the same entry).
C4_CaseInsensitive ==
    FoundCall =>
        /\ (\E i \in DOMAIN Searched : \E j \in DOMAIN Searched[i].aliases :
               Strip(Lower(Searched[i].aliases[j])) = Asked)
              => last.ret.status = "value"
        /\ last.ret = find_resource(last.category, Asked)

\* C4's case: the query is not in normal form, it equals an alias of the only
\* matching entry once both are folded, and that entry is returned.
C4_Witness ==
    /\ FoundCall
    /\ last.query # Asked
    /\ Lower(last.query) # last.query
    /\ \E i \in DOMAIN Searched :
          /\ \E j \in DOMAIN Searched[i].aliases :
                /\ Searched[i].aliases[j] # Asked
                /\ Strip(Lower(Searched[i].aliases[j])) = Asked
          /\ ~KeyOrNameEqualsAsked(Searched[i])
          /\ ReturnedEntry(i)

----------------------------------------------------------------------------
(* Properties of find_weapon_with_level and of the /weapon handler, checked *)
(* under SpecWeapon.                                                        *)

\* the level mapping stored for the weapon the query finds
StoredLevels == resources["weapons"].entries[1].levels

\* a finished call of find_weapon_with_level that returned a leveled weapon
LeveledCall ==
    /\ last.op = "find_weapon_with_level"
    /\ last.ret.status = "value"
    /\ last.ret.value[1].has_levels

StrictlyAscending(s) == \A i, j \in DOMAIN s : i < j => s[i] < s[j]

\* C5: the levels_available list of a leveled weapon is strictly ascending,
\* without duplicates, whatever the order and spelling of the storage keys.
C5_StrictlyAscending ==
    LeveledCall => StrictlyAscending(last.ret.value[1].levels_available)

\* what the same query returns when no level is passed
Unleveled == find_weapon_with_level(last.query, <<>>)

\* a finished call of find_weapon_with_level with a level, on a weapon whose
\* resolution without level lists its levels
AskedLevel ==
    /\ last.op = "find_weapon_with_level"
    /\ last.level # <<>>
    /\ Unleveled.status = "value"
    /\ Unleveled.value[1].has_levels

\* C6: a level that is not among the available ones is answered with
\* need_level_selection = True, invalid_level = that level and the same
\* levels_available as a call without level, and with neither a selected
\* level nor a file reference.
C6_InvalidLevel ==
    AskedLevel /\ ~(\E i \in DOMAIN Unleveled.value[1].levels_available :
                       Unleveled.value[1].levels_available[i] = last.level[1])
        => /\ last.ret.status = "value"
           /\ last.ret.value[1].need_level_selection = <<TRUE>>
           /\ last.ret.value[1].invalid_level = last.level
           /\ last.ret.value[1].levels_available = Unleveled.value[1].levels_available
           /\ last.ret.value[1].selected_level = <<>>
           /\ last.ret.value[1].level_info = <<>>

\* C6's case: a weapon with two levels is asked for a third.
C6_Witness ==
    /\ AskedLevel
    /\ Len(last.ret.value[1].levels_available) >= 2
    /\ last.ret.value[1].invalid_level = last.level
    /\ \A i \in DOMAIN last.ret.value[1].levels_available :
          last.ret.value[1].levels_available[i] # last.level[1]

\* C7: a level that is among the available ones is answered with
\* need_level_selection = False, selected_level = that level and the file
\* reference of the file stored for that level: its filename, its path in the
\* weapons directory, and whether that path exists.
C7_LevelFile ==
    AskedLevel /\ (\E i \in DOMAIN Unleveled.value[1].levels_available :
                      Unleveled.value[1].levels_available[i] = last.level[1])
        => /\ last.ret.status = "value"
           /\ last.ret.value[1].need_level_selection = <<FALSE>>
           /\ last.ret.value[1].selected_level = last.level
           /\ last.ret.value[1].level_info # <<>>
           /\ \E i \in DOMAIN StoredLevels :
                 /\ Strip(StoredLevels[i].key) # <<>>
                 /\ DigitsValue(Strip(StoredLevels[i].key)) = last.level[1]
                 /\ last.ret.value[1].level_info[1].filename = StoredLevels[i].filename
                 /\ StoredLevels[i].filename # <<>> =>
                       /\ last.ret.value[1].level_info[1].file_path
                             = [dir |-> "weapons", file |-> StoredLevels[i].filename[1]]
                       /\ last.ret.value[1].level_info[1].exists
                             = (last.ret.value[1].level_info[1].file_path \in disk)

\* a finished handling of /weapon for a weapon that lists its levels, where
\* the level asked for is not among them or no level was asked for
FallbackCase ==
    /\ last.op = "_query_weapon"
    /\ Unleveled.status = "value"
    /\ Unleveled.value[1].has_levels
    /\ \/ last.level = <<>>
       \/ \A i \in DOMAIN Unleveled.value[1].levels_available :
             Unleveled.value[1].levels_available[i] # last.level[1]

\* level 1 is among the levels the weapon lists
HasLevelOne ==
    \E i \in DOMAIN Unleveled.value[1].levels_available :
       Unleveled.value[1].levels_available[i] = 1

\* C8 as stated: in the fallback case the handler always ends with a
\* resolution at level 1 handed to delivery, never with the "weapon data
\* error" text.
C8_FallbackAlwaysSucceeds ==
    FallbackCase =>
        /\ last.ret.result # <<>>
        /\ last.ret.result[1].selected_level = <<1>>
        /\ last.ret.shown.texts # <<"data_error">>

\* C8 as amended: in the fallback case the handler resolves at level 1; when
\* the weapon lists level 1 that resolution is the one handed to delivery and
\* its file reference is the only path that can be sent; when the weapon does
\* not list level 1 the handler ends with the "weapon data error" text and
\* hands nothing to delivery.
C8_FallbackToLevelOne ==
    FallbackCase =>
        IF HasLevelOne
        THEN /\ last.ret.result # <<>>
             /\ last.ret.result[1].selected_level = <<1>>
             /\ last.ret.result[1].need_level_selection = <<FALSE>>
             /\ last.ret.fallback = (last.level # <<>>)
             /\ last.ret.shown.texts # <<"data_error">>
             /\ last.ret.shown.image # <<>> =>
                   last.ret.shown.image[1] = last.ret.result[1].level_info[1].file_path
             /\ last.ret.shown.image = <<>> <=>
                   ~last.ret.result[1].level_info[1].exists
        ELSE /\ last.ret.result = <<>>
             /\ last.ret.fallback
             /\ last.ret.shown = [texts |-> <<"data_error">>, image |-> <<>>,
                                  delivered |-> FALSE]

\* C8's case: a weapon with levels 1 and 2 is asked for at a level it lacks,
\* and the file stored for level 1 is delivered.
C8_Witness ==
    /\ FallbackCase
    /\ last.level # <<>>
    /\ Unleveled.value[1].levels_available = <<1, 2>>
    /\ last.ret.fallback
    /\ last.ret.shown.delivered
    /\ \E i \in DOMAIN StoredLevels :
          /\ StoredLevels[i].key = <<"1">>
          /\ StoredLevels[i].filename # <<>>
          /\ last.ret.shown.image
                = <<[dir |-> "weapons", file |-> StoredLevels[i].filename[1]]>>

----------------------------------------------------------------------------
(* Properties of reload_resources, checked under Spec. *)

\* a finished reload; the index files are as the reload read them
Reloaded == last.op = "reload_resources"

\* C9: reload_resources returns True only if every category was loaded
\* without error: with a source file missing or unparseable it does not.
C9_TrueOnlyIfAllLoaded ==
    Reloaded /\ last.ret = [status |-> "value", value |-> <<TRUE>>]
        => \A c \in Categories : files[c].kind \notin {"missing", "corrupt"}

\* C10: after a reload, a category whose file was missing or unparseable
\* holds what it held before the reload, every other category holds what its
\* file holds, and a category changed only if its file was read.
C10_FailedCategoryKept ==
    Reloaded =>
        \A c \in Categories :
            /\ files[c].kind \in {"missing", "corrupt"} => resources[c] = last.before[c]
            /\ files[c].kind \notin {"missing", "corrupt"} => resources[c] = files[c]
            /\ resources[c] # last.before[c] => files[c].kind \notin {"missing", "corrupt"}

\* C10's case: in one reload a category with an unparseable file and one with
\* a deleted file keep their entries while a third is replaced.
C10_Witness ==
    /\ Reloaded
    /\ \E c, d, e \in Categories :
          /\ files[c].kind = "corrupt"
          /\ resources[c] = last.before[c] /\ resources[c].entries # <<>>
          /\ files[d].kind = "missing"
          /\ resources[d] = last.before[d] /\ resources[d].entries # <<>>
          /\ files[e].kind = "mapping"
          /\ resources[e] = files[e] /\ resources[e] # last.before[e]

----------------------------------------------------------------------------
(* The upload pipeline (core/image_uploader.py). *)

\* `10 * 1024 * 1024`: the largest file upload_image_from_path accepts
SizeLimit == 10 * 1024 * 1024

\* the HTTP status of an accepted upload (`response.status_code != 200`)
StatusOK == 200

\* the business code of an accepted upload (`result.get('code') != 200`)
CodeOK == 200

\* a call made on something outside the program: the upload API, the strategy
\* or the platform API, with the text and the attachment it carries
Call(api, content, image_url, file_image) ==
    [api |-> api, content |-> content, image_url |-> image_url,
     file_image |-> file_image]

\* how a method ends: what it returns (or that it raises) and the calls it
\* made on the way
Did(ret, calls) == [ret |-> ret, calls |-> calls]

\* `except Exception: ... return None` around a body
Caught(done) ==
    IF done.ret.status = "raise" THEN Did(None, done.calls) ELSE done

\* `not image_url`: the field is missing, null or the empty string
Falsy(field) == field = <<>> \/ field[1] = <<>>

\* the request of _upload_to_api
Posted == <<Call("client.post", "", <<>>, <<>>)>>

\* a parse that accepts whatever business code the response carries
PostAndParseAnyCode(post) ==
    IF post.kind # "response" THEN Did(Raised, Posted)
    ELSE IF post.status_code # StatusOK THEN Did(None, Posted)
    ELSE IF post.json # "object" THEN Did(Raised, Posted)
    ELSE IF Falsy(post.image_url) THEN Did(None, Posted)
    ELSE Did(Returned(post.image_url[1]), Posted)

\* the body of the try of _upload_to_api: the request raises (a timeout, a
\* transport error, anything else), or it answers; response.json() raises on
\* a body that is no JSON and result.get on a JSON value that is no object
PostAndParse(post) ==
    IF post.kind # "response" THEN Did(Raised, Posted)
    ELSE IF post.status_code # StatusOK THEN Did(None, Posted)
    ELSE IF post.json # "object" THEN Did(Raised, Posted)
    ELSE IF post.code # <<CodeOK>> THEN Did(None, Posted)
    ELSE IF Falsy(post.image_url) THEN Did(None, Posted)
    ELSE Did(Returned(post.image_url[1]), Posted)

\* ImageUploader._upload_to_api
_upload_to_api(post) == Caught(PostAndParse(post))

\* ImageUploader.upload_image_from_bytes; base64.b64encode raises on an
\* argument that is no bytes-like object
upload_image_from_bytes(encodable, post) ==
    Caught(IF ~encodable THEN Did(Raised, <<>>) ELSE _upload_to_api(post))

\* a size check that also rejects a file of exactly the limit
TooLargeInclusive(file_size) == file_size >= SizeLimit

\* `file_size > 10 * 1024 * 1024`
TooLarge(file_size) == file_size > SizeLimit

\* whether open(image_path, 'rb') returns: it raises on a directory and on a
\* file that cannot be read
CanOpen(path, env) == path.file # "" /\ env.readable

\* ImageUploader.upload_image_from_path
upload_image_from_path(path, env) ==
    Caught(IF ~Exists(path) THEN Did(None, <<>>)
           ELSE IF TooLarge(env.file_size) THEN Did(None, <<>>)
           ELSE IF ~CanOpen(path, env) THEN Did(Raised, <<>>)
           ELSE upload_image_from_bytes(TRUE, env.post))

----------------------------------------------------------------------------
(* The message facade (utils/message_handler.py). *)

\* where the message of a handler comes from: a group, a channel, a direct
\* chat, or a message that carries no raw platform message
Origins == {"group", "channel", "direct", "raw_absent"}

\* what a call on the strategy or on the platform API does: it returns True,
\* it returns False, or it raises
Outcomes == {"true", "false", "raise"}

\* the text "\n(warning sign) 发送图片时发生错误"
WarningText == "image_warning"

\* a send_text that calls the strategy without looking whether there is one
send_text_unguarded(s, content, env) ==
    Did(Returned(env.text = "true"), <<Call("strategy.send_text", content, <<>>, <<>>)>>)

\* MessageHandler.send_text
send_text(s, content, env) ==
    IF s = NoStrategy THEN Did(Returned(FALSE), <<>>)
    ELSE Did(Returned(env.text = "true"),
             <<Call("strategy.send_text", content, <<>>, <<>>)>>)

\* the `except` branch of send_image and of send_image_from_path: the warning
\* text, then False
Warned(s, calls, env) ==
    Did(Returned(FALSE), calls \o send_text(s, WarningText, env).calls)

\* MessageHandler.send_image (ensure_image_format returns under every input)
send_image(s, env) ==
    LET called == <<Call("strategy.send_image", "", <<>>, <<>>)>>
    IN  IF s = NoStrategy THEN Did(Returned(FALSE), <<>>)
        ELSE IF env.platform = "raise" THEN Warned(s, called, env)
        ELSE Did(Returned(env.platform = "true"), called)

\* MessageHandler.recall
recall(s, env) ==
    IF s = NoStrategy THEN Did(Returned(FALSE), <<>>)
    ELSE Did(Returned(env.platform = "true"),
             <<Call("strategy.recall", "", <<>>, <<>>)>>)

\* MessageHandler.user_id
user_id(s) == IF s = NoStrategy THEN <<>> ELSE <<"u">>

\* an upload that is never taken to have failed
UploadFailedNever(up) == FALSE

\* `if not image_url` on what the upload returned
UploadFailed(up) == up.ret.status # "value"

\* the branch on the message type and the platform call of
\* send_image_from_path (lines 126-154): a group and a channel get the URL,
\* a direct chat gets the bytes of the file, read again (read_bytes raises
\* when the file has gone since the upload read it); a message without raw
\* platform message falls into the direct branch and fails on
\* `raw_message.id`
Deliver(s, path, image_url, began, env) ==
    LET origin == s[1]
        call == CASE origin = "group" ->
                        Call("send_to_group", "", image_url, <<>>)
                  [] origin = "channel" ->
                        Call("send_to_channel", "", image_url, <<>>)
                  [] OTHER ->
                        Call("send_to_user", "", <<>>, <<path>>)
    IN  IF origin = "raw_absent" THEN Warned(s, began, env)
        ELSE IF origin = "direct" /\ ~(path.file # "" /\ env.reread)
        THEN Warned(s, began, env)
        ELSE IF env.platform = "raise" THEN Warned(s, began \o <<call>>, env)
        ELSE Did(Returned(env.platform = "true"), began \o <<call>>)

\* MessageHandler.send_image_from_path
send_image_from_path(s, path, env) ==
    LET up == upload_image_from_path(path, env)
        began == <<Call("upload_image_from_path", "", <<>>, <<path>>)>> \o up.calls
    IN  IF s = NoStrategy THEN Did(Returned(FALSE), <<>>)
        ELSE IF ~Exists(path) THEN Did(Returned(FALSE), <<>>)
        ELSE IF up.ret.status = "raise" THEN Warned(s, began, env)
        ELSE IF UploadFailed(up) THEN Did(Returned(FALSE), began)
        ELSE Deliver(s, path, up.ret.value, began, env)

----------------------------------------------------------------------------
(* The delivery specification: one handler, every operation of the facade  *)
(* and of the upload pipeline under every outcome of the calls they make.  *)

\* the sizes stat() reports: an empty file and the sizes around the limit
FileSizes == {0, SizeLimit - 1, SizeLimit, SizeLimit + 1}

\* the statuses the upload API answers with
StatusCodes == {StatusOK, 404}

\* the `code` and `image_url` fields of its JSON answer: missing, or present
CodeFields == {<<>>, <<CodeOK>>, <<0>>}
UrlFields == {<<>>, << <<>> >>, << <<"u">> >>}

Post(kind, status_code, json, code, image_url) ==
    [kind |-> kind, status_code |-> status_code, json |-> json, code |-> code,
     image_url |-> image_url]

\* what the request does: it raises, or it answers with a body that is no
\* JSON, that is a JSON array, or that is a JSON object
Posts ==
    {Post(k, 0, "invalid", <<>>, <<>>) : k \in {"timeout", "request_error", "fault"}}
    \cup {Post("response", st, j, <<>>, <<>>) :
             st \in StatusCodes, j \in {"invalid", "array"}}
    \cup {Post("response", st, "object", c, u) :
             st \in StatusCodes, c \in CodeFields, u \in UrlFields}

\* the outcomes of everything a call of the facade may touch
Envs ==
    [file_size : FileSizes, readable : BOOLEAN, post : Posts,
     reread : BOOLEAN, platform : Outcomes, text : Outcomes]
UploadEnvs == [file_size : FileSizes, readable : BOOLEAN, post : Posts]
StrategyEnvs == [platform : Outcomes, text : Outcomes]

\* the image a handler is asked to send
ImagePath == PathOf("maps", "f1")

CallUploadFromPath(env) ==
    /\ last = Idle
    /\ last' = [op |-> "upload_image_from_path", path |-> ImagePath, env |-> env,
                done |-> upload_image_from_path(ImagePath, env)]
    /\ UNCHANGED <<files, disk, resources, strategy, tasks>>

CallUploadFromBytes(encodable, post) ==
    /\ last = Idle
    /\ last' = [op |-> "upload_image_from_bytes", encodable |-> encodable,
                post |-> post, done |-> upload_image_from_bytes(encodable, post)]
    /\ UNCHANGED <<files, disk, resources, strategy, tasks>>

CallSendText(env) ==
    /\ last = Idle
    /\ last' = [op |-> "send_text", env |-> env,
                done |-> send_text(strategy, "text", env)]
    /\ UNCHANGED <<files, disk, resources, strategy, tasks>>

CallSendImage(env) ==
    /\ last = Idle
    /\ last' = [op |-> "send_image", env |-> env, done |-> send_image(strategy, env)]
    /\ UNCHANGED <<files, disk, resources, strategy, tasks>>

CallSendImageFromPath(env) ==
    /\ last = Idle
    /\ last' = [op |-> "send_image_from_path", path |-> ImagePath, env |-> env,
                done |-> send_image_from_path(strategy, ImagePath, env)]
    /\ UNCHANGED <<files, disk, resources, strategy, tasks>>

CallRecall(env) ==
    /\ last = Idle
    /\ last' = [op |-> "recall", env |-> env, done |-> recall(strategy, env)]
    /\ UNCHANGED <<files, disk, resources, strategy, tasks>>

CallUserId ==
    /\ last = Idle
    /\ last' = [op |-> "user_id", ret |-> user_id(strategy)]
    /\ UNCHANGED <<files, disk, resources, strategy, tasks>>

\* MessageHandler.__init__: no strategy when no provider classifies the
\* message, the strategy of the message's provider otherwise
InitSend ==
    /\ strategy \in {NoStrategy} \cup {<<o>> : o \in Origins}
    /\ disk \in {{}, {ImagePath}}
    /\ resources = [c \in Categories |-> Mapping(<<>>)]
    /\ files = resources
    /\ tasks = NoTasks
    /\ last = Idle

NextSend ==
    \/ \E env \in UploadEnvs : CallUploadFromPath(env)
    \/ \E b \in BOOLEAN, post \in Posts : CallUploadFromBytes(b, post)
    \/ \E env \in StrategyEnvs : CallSendText(env)
    \/ \E env \in StrategyEnvs : CallSendImage(env)
    \/ \E env \in Envs : CallSendImageFromPath(env)
    \/ \E env \in StrategyEnvs : CallRecall(env)
    \/ CallUserId
    \/ Return

SpecSend == InitSend /\ [][NextSend]_vars

----------------------------------------------------------------------------
(* Properties of the facade and of the upload pipeline, checked under      *)
(* SpecSend.                                                               *)

\* a finished call of send_image_from_path
SendCall == last.op = "send_image_from_path"

\* the APIs a sequence of calls names
Apis(calls) == {calls[i].api : i \in DOMAIN calls}

\* the image sends of the platform API
PlatformSends == {"send_to_group", "send_to_channel", "send_to_user"}

\* the calls of the upload pipeline, from its entry to its request
UploadCalls == {"upload_image_from_path", "client.post"}

\* C11: send_image_from_path on a direct-origin message never invokes the
\* upload pipeline, and what it returns is the same under every answer of the
\* upload API; on a group-origin message with an existing file it invokes the
\* upload pipeline, and does so before any platform call.
C11_DirectNeverUploads ==
    SendCall =>
        LET calls == last.done.calls
        IN  /\ strategy = <<"direct">> =>
                  /\ Apis(calls) \cap UploadCalls = {}
                  /\ \A p \in Posts :
                        send_image_from_path(strategy, last.path,
                                             [last.env EXCEPT !.post = p]).ret
                            = last.done.ret
            /\ (strategy = <<"group">> /\ Exists(last.path)) =>
                  /\ calls # <<>>
                  /\ calls[1].api = "upload_image_from_path"

\* C12: when the file does not exist or the upload yields no URL,
\* send_image_from_path returns False and makes no platform send call; a call
\* of send_to_group or send_to_channel comes after the upload, which returned
\* a URL, and carries that URL and the empty text.
C12_NoSendWithoutUrl ==
    SendCall =>
        LET calls == last.done.calls
            up == upload_image_from_path(last.path, last.env)
        IN  /\ (~Exists(last.path) \/ up.ret.status # "value") =>
                  /\ last.done.ret = Returned(FALSE)
                  /\ Apis(calls) \cap PlatformSends = {}
            /\ \A i \in DOMAIN calls :
                  calls[i].api \in {"send_to_group", "send_to_channel"} =>
                      /\ up.ret.status = "value"
                      /\ calls[i].image_url = up.ret.value
                      /\ calls[i].content = ""
                      /\ \E j \in 1..(i - 1) : calls[j].api = "upload_image_from_path"

\* a handler with a strategy was asked to send an existing file and the
\* upload API refused it
C12_Witness ==
    /\ SendCall
    /\ strategy = <<"group">>
    /\ Exists(last.path)
    /\ last.env.readable
    /\ last.env.post.kind = "response"
    /\ last.env.post.status_code = 404
    /\ last.done.ret = Returned(FALSE)

\* a finished call of upload_image_from_path
UploadCall == last.op = "upload_image_from_path"

\* C13: upload_image_from_path returns None without any network call on a
\* missing file and on a file of more than 10 * 1024 * 1024 bytes; a file of
\* that size or less passes the size check, so that a readable one is posted.
C13_SizeLimit ==
    UploadCall =>
        /\ (~Exists(last.path) \/ last.env.file_size > 10 * 1024 * 1024) =>
              /\ last.done.ret = None
              /\ last.done.calls = <<>>
        /\ ( /\ Exists(last.path)
             /\ last.env.file_size <= 10 * 1024 * 1024
             /\ last.env.readable ) =>
              Apis(last.done.calls) = {"client.post"}

\* a file of exactly the limit was uploaded and its URL returned
C13_Witness ==
    /\ UploadCall
    /\ Exists(last.path)
    /\ last.env.file_size = 10 * 1024 * 1024
    /\ last.done.ret = Returned(<<"u">>)

\* the answer carries HTTP status 200, business code 200 and a non-empty
\* image_url
Accepted(post) ==
    /\ post.kind = "response"
    /\ post.status_code = 200
    /\ post.json = "object"
    /\ post.code = <<200>>
    /\ post.image_url # <<>>
    /\ post.image_url[1] # <<>>

\* C14: the upload pipeline returns the URL of the answer if the answer has
\* HTTP status 200, business code 200 and a non-empty image_url, and None
\* under every other outcome of the request; no exception leaves
\* upload_image_from_path or upload_image_from_bytes.
C14_UrlIffAccepted ==
    /\ last.op = "upload_image_from_bytes" =>
          /\ last.done.ret.status # "raise"
          /\ (last.encodable /\ Accepted(last.post)) =>
                last.done.ret = Returned(last.post.image_url[1])
          /\ ~(last.encodable /\ Accepted(last.post)) => last.done.ret = None
    /\ UploadCall =>
          /\ last.done.ret.status # "raise"
          /\ Accepted(last.env.post) =>
                last.done.ret \in {None, Returned(last.env.post.image_url[1])}
          /\ ( /\ Accepted(last.env.post)
               /\ Apis(last.done.calls) = {"client.post"} ) =>
                last.done.ret = Returned(last.env.post.image_url[1])
          /\ ~Accepted(last.env.post) => last.done.ret = None

\* the upload API answered 200 with a business code other than 200 and a URL
C14_Witness ==
    /\ last.op = "upload_image_from_bytes"
    /\ last.encodable
    /\ last.post.kind = "response"
    /\ last.post.status_code = 200
    /\ last.post.code = <<0>>
    /\ last.post.image_url = << <<"u">> >>
    /\ last.done.ret = None

\* the operations of the facade that return a flag
FacadeOps == {"send_text", "send_image", "send_image_from_path", "recall"}

\* C15: a handler whose message no provider classifies holds no strategy for
\* its whole lifetime; send_text, send_image, send_image_from_path and recall
\* then return False without raising and without any call, and user_id is
\* the empty string.
C15_NoStrategySilent ==
    /\ [](strategy = NoStrategy =>
            /\ last.op \in FacadeOps =>
                  /\ last.done.ret = Returned(FALSE)
                  /\ last.done.calls = <<>>
            /\ last.op = "user_id" => last.ret = <<>>)
    /\ [][strategy = NoStrategy => strategy' = NoStrategy]_vars

\* a handler without strategy was asked for a text
C15_Witness ==
    /\ strategy = NoStrategy
    /\ last.op = "send_text"
    /\ last.env.text = "true"
    /\ last.done.ret = Returned(FALSE)

----------------------------------------------------------------------------
(* The query handlers of /map and /arc, and the three handlers on top of   *)
(* the facade.                                                             *)

\* the body shared by ARCMapPlugin._query_map and ARCInfoPlugin._query_info;
\* an exception raised in it ends in the `except` branch
QueryResource(category, query, send) ==
    LET r == find_resource(category, query)
    IN  IF r.status = "raise" THEN Shown(<<"query_failed">>, <<>>, FALSE)
        ELSE IF r.status = "none" THEN Shown(<<"not_found">>, <<>>, FALSE)
        ELSE IF ~r.value[1].exists THEN Shown(<<"file_missing">>, <<>>, FALSE)
        ELSE SendImage(r.value[1].file_path[1], send)

\* ARCMapPlugin._query_map
QueryMap(query, send) == QueryResource("maps", query, send)

\* ARCInfoPlugin._query_info
QueryInfo(query, send) == QueryResource("arc", query, send)

\* what one call of handler.send_image_from_path is to the handler that made
\* it: it returned True, it returned False, or it sent the warning text from
\* its `except` branch and returned False
SendOutcome(s, path, env) ==
    LET done == send_image_from_path(s, path, env)
    IN  IF done.ret = Returned(TRUE) THEN "sent"
        ELSE IF \E i \in DOMAIN done.calls : done.calls[i].content = WarningText
        THEN "fault"
        ELSE "failed"

\* the outcome of send_image_from_path on the path a handling resolves (the
\* path does not depend on the outcome); Show(send) is what the handling
\* shows under an outcome
Delivery(Show(_), s, env) ==
    LET image == Show("sent").image
    IN  IF image = <<>> THEN "sent" ELSE SendOutcome(s, image[1], env)

_query_map(query, env) ==
    LET send == Delivery(LAMBDA x : QueryMap(query, x), strategy, env)
    IN  /\ last = Idle
        /\ last' = [op |-> "_query_map", query |-> query, send |-> send,
                    ret |-> QueryMap(query, send)]
        /\ UNCHANGED <<files, disk, resources, strategy, tasks>>

_query_info(query, env) ==
    LET send == Delivery(LAMBDA x : QueryInfo(query, x), strategy, env)
    IN  /\ last = Idle
        /\ last' = [op |-> "_query_info", query |-> query, send |-> send,
                    ret |-> QueryInfo(query, send)]
        /\ UNCHANGED <<files, disk, resources, strategy, tasks>>

\* the outcomes of the calls of one delivery: the file is readable or not,
\* the upload times out or is accepted, the platform call returns or raises
QueryEnvs ==
    {env \in Envs :
        /\ env.file_size = 0
        /\ env.reread
        /\ env.text = "true"
        /\ \/ env.post.kind = "timeout"
           \/ /\ env.post.kind = "response"
              /\ env.post.status_code = StatusOK
              /\ env.post.code = <<CodeOK>>
              /\ env.post.image_url = << <<"u">> >>}

\* a category the handlers read: a value that is no mapping (left there by a
\* load that raised), no entry, an entry without file name, an entry with one
CategoryStates ==
    {Scalar, Mapping(<<>>),
     Mapping(<<Entry(<<"a">>, <<>>, <<>>, <<>>, <<>>)>>),
     Mapping(<<Entry(<<"a">>, <<>>, <<>>, <<"f1">>, <<>>)>>)}

\* one weapon, with at most one stored level
QueryLevelMaps == {ls \in LevelMaps : Len(ls) <= 1}

\* the files below the resource directory
QueryDisks ==
    {ws \cup fs : ws \in DiskStates,
                  fs \in {{}, {PathOf("maps", "f1"), PathOf("arc", "f1")}}}

InitQuery ==
    /\ \E m \in CategoryStates,
          a \in CategoryStates \ {Scalar, Mapping(<<>>)},
          ls \in QueryLevelMaps :
          resources = [c \in Categories |->
                          CASE c = "maps" -> m
                            [] c = "arc" -> a
                            [] OTHER ->
                               Mapping(<<Entry(<<"a">>, <<>>, <<>>, <<"f1">>, ls)>>)]
    /\ files = resources
    /\ disk \in QueryDisks
    /\ strategy \in {NoStrategy, <<"group">>, <<"direct">>}
    /\ tasks = NoTasks
    /\ last = Idle

NextQuery ==
    \/ \E q \in WeaponQueries, env \in QueryEnvs : _query_map(q, env)
    \/ \E q \in WeaponQueries, env \in QueryEnvs : _query_info(q, env)
    \/ \E q \in WeaponQueries, l \in LevelArgs, env \in QueryEnvs :
          _query_weapon(q, l,
              Delivery(LAMBDA x : QueryWeapon(q, l, x).shown, strategy, env))
    \/ Return

SpecQuery == InitQuery /\ [][NextQuery]_vars

----------------------------------------------------------------------------
(* Properties of the query handlers, checked under SpecQuery. *)

QueryOps == {"_query_map", "_query_info", "_query_weapon"}

\* a finished handling of a query
Handled == last.op \in QueryOps

\* what the finished handling showed the user
ShownNow == IF last.op = "_query_weapon" THEN last.ret.shown ELSE last.ret

\* the category a handler searches
CategoryOf(op) ==
    CASE op = "_query_map" -> "maps"
      [] op = "_query_info" -> "arc"
      [] OTHER -> "weapons"

\* there is a file, and not a directory, at the path
RegularFile(path) == path.file # "" /\ path \in disk

\* C16: a handling of /map, /arc or /weapon that delivers no image ends with
\* a text: the not-found text when the query matches nothing, the
\* file-missing text, with no image send attempted, when there is no file at
\* the resolved path, the send-failed text when send_image_from_path returned
\* False, the retry-later text when the lookup raised.
C16_FailureEndsInText ==
    Handled =>
        LET shown == ShownNow
            found == find_resource(CategoryOf(last.op), last.query)
        IN  /\ ~shown.delivered => shown.texts # <<>>
            /\ found.status = "none" => shown.texts = <<"not_found">>
            /\ found.status = "raise" => shown.texts = <<"query_failed">>
            /\ shown.image # <<>> => RegularFile(shown.image[1])
            /\ ( /\ last.op # "_query_weapon"
                 /\ found.status = "value"
                 /\ ~found.value[1].exists ) =>
                  shown = Shown(<<"file_missing">>, <<>>, FALSE)
            /\ (shown.image # <<>> /\ ~shown.delivered) =>
                  shown.texts[Len(shown.texts)] = "send_failed"

\* C19: one handling of /map, /arc or /weapon sends the user at most one
\* failure text, whatever step fails.
C19_AtMostOneFailureText == Handled => Len(ShownNow.texts) <= 1

----------------------------------------------------------------------------
(* The /weapon command (ARCWeaponPlugin.handle_weapon). *)

\* the arguments of the command are the strings of at most MaxArgLen
\* characters
MaxArgLen == 5

\* the position of the first whitespace character of s, 0 when it has none
FirstSpace(s) ==
    IF \E i \in DOMAIN s : IsSpace(s[i])
    THEN CHOOSE i \in DOMAIN s :
            IsSpace(s[i]) /\ \A j \in 1..(i - 1) : ~IsSpace(s[j])
    ELSE 0

\* the position of the last whitespace character of s, 0 when it has none
LastSpace(s) ==
    IF \E i \in DOMAIN s : IsSpace(s[i])
    THEN CHOOSE i \in DOMAIN s :
            IsSpace(s[i]) /\ \A j \in (i + 1)..Len(s) : ~IsSpace(s[j])
    ELSE 0

\* s.split(maxsplit=1): the first run of non-whitespace and, when something
\* other than whitespace follows it, the rest from there on
SplitFirst(s) ==
    LET t == LStrip(s)
        i == FirstSpace(t)
        rest == LStrip(SubSeq(t, i, Len(t)))
    IN  IF t = <<>> THEN <<>>
        ELSE IF i = 0 \/ rest = <<>> THEN <<RStrip(t)>>
        ELSE <<SubSeq(t, 1, i - 1), rest>>

\* s.rsplit(maxsplit=1): the last run of non-whitespace and, when something
\* other than whitespace precedes it, what precedes it
RSplitLast(s) ==
    LET t == RStrip(s)
        i == LastSpace(t)
        head == RStrip(SubSeq(t, 1, i))
    IN  IF t = <<>> THEN <<>>
        ELSE IF i = 0 \/ head = <<>> THEN <<LStrip(t)>>
        ELSE <<head, SubSeq(t, i + 1, Len(t))>>

\* whether int(s) returns on a token: an optional sign, then decimal digits
ParsesAsInt(s) ==
    /\ s # <<>>
    /\ IF s[1] \in {"+", "-"}
       THEN Tail(s) = Strip(Tail(s)) /\ IsIntLiteral(Tail(s))
       ELSE IsIntLiteral(s)

\* int(s) on such a token
SignedIntOf(s) ==
    CASE s[1] = "-" -> 0 - IntOf(Tail(s))
      [] s[1] = "+" -> IntOf(Tail(s))
      [] OTHER -> IntOf(s)

\* what lines 71-83 make of the query
Parsed(weapon_name, level) == [weapon_name |-> weapon_name, level |-> level]

\* a parse that takes the level and leaves it in the name
NameAndLevelWholeName(query) ==
    LET query_parts == RSplitLast(query)
    IN  IF Len(query_parts) > 1 /\ ParsesAsInt(query_parts[2])
        THEN Parsed(query, <<SignedIntOf(query_parts[2])>>)
        ELSE Parsed(query, <<>>)

\* lines 71-83 of handle_weapon: `' '.join(query_parts[:-1])` is the first
\* of the two parts
NameAndLevel(query) ==
    LET query_parts == RSplitLast(query)
    IN  IF Len(query_parts) > 1 /\ ParsesAsInt(query_parts[2])
        THEN Parsed(query_parts[1], <<SignedIntOf(query_parts[2])>>)
        ELSE Parsed(query, <<>>)

\* ARCWeaponPlugin._send_usage
_send_usage == Shown(<<"usage">>, <<>>, FALSE)

\* ARCWeaponPlugin._send_weapon_list
_send_weapon_list ==
    IF resources["weapons"].kind # "mapping"
    THEN Shown(<<"list_failed">>, <<>>, FALSE)
    ELSE IF resources["weapons"].entries = <<>>
    THEN Shown(<<"list_empty">>, <<>>, FALSE)
    ELSE Shown(<<"weapon_list">>, <<>>, FALSE)

\* the list keyword (its two Chinese spellings are not among the arguments
\* of the model)
ListWord == <<"l", "i", "s", "t">>

\* one run of handle_weapon: the branch taken, the name and the level handed
\* to _query_weapon (if any), and the handling
Command(branch, query, level, handling) ==
    [branch |-> branch, query |-> query, level |-> level, handling |-> handling]

\* ARCWeaponPlugin.handle_weapon
handle_weapon(content, send) ==
    LET parts == SplitFirst(content)
        query == Strip(parts[2])
        parsed == NameAndLevel(query)
    IN  IF Len(parts) < 2
        THEN Command("usage", <<>>, <<>>, Handling(FALSE, <<>>, _send_usage))
        ELSE IF Lower(query) = ListWord
        THEN Command("list", <<>>, <<>>, Handling(FALSE, <<>>, _send_weapon_list))
        ELSE Command("query", <<parsed.weapon_name>>, parsed.level,
                     QueryWeapon(parsed.weapon_name, parsed.level, send))

HandleWeapon(content, env) ==
    LET send == Delivery(LAMBDA x : handle_weapon(content, x).handling.shown,
                         strategy, env)
    IN  /\ last = Idle
        /\ last' = [op |-> "handle_weapon", content |-> content, send |-> send,
                    ret |-> handle_weapon(content, send)]
        /\ UNCHANGED <<files, disk, resources, strategy, tasks>>

----------------------------------------------------------------------------
(* The command specification: /weapon with every short argument, on a      *)
(* catalogue where one weapon's alias ends in a numeric token.             *)

\* the command token, as the router matched it
CommandToken == <<"/", "w">>

ArgChars == {"a", "1", "-", " "}
Args == UNION {[1..n -> ArgChars] : n \in 0..MaxArgLen}

Contents ==
    {CommandToken, CommandToken \o <<" ">> \o ListWord}
    \cup {CommandToken \o <<" ">> \o a : a \in Args}

\* the weapon "b" also answers to "a 1"; the weapon "a" has no level or has
\* level 1
CommandCatalogues ==
    {<<Entry(<<"b">>, <<>>, << <<"a", " ", "1">> >>, <<"f2">>, <<>>),
       Entry(<<"a">>, <<>>, <<>>, <<"f1">>, ls)>> :
        ls \in {<<>>, <<[key |-> <<"1">>, filename |-> <<"f1">>]>>}}

\* the upload is accepted or times out; the platform call returns True
CommandEnvs == {env \in QueryEnvs : env.readable /\ env.platform = "true"}

\* no file, or every file, is below the weapons directory
CommandDisks == {{}, {PathOf("weapons", "")} \cup {PathOf("weapons", n) : n \in FilePool}}

InitCommand ==
    /\ \E es \in {<<>>} \cup CommandCatalogues :
          resources = [c \in Categories |->
                          IF c = "weapons" THEN Mapping(es) ELSE Mapping(<<>>)]
    /\ files = resources
    /\ disk \in CommandDisks
    /\ strategy \in {NoStrategy, <<"group">>}
    /\ tasks = NoTasks
    /\ last = Idle

NextCommand ==
    \/ \E content \in Contents, env \in CommandEnvs : HandleWeapon(content, env)
    \/ Return

SpecCommand == InitCommand /\ [][NextCommand]_vars

----------------------------------------------------------------------------
(* Properties of the /weapon command, checked under SpecCommand. *)

\* a finished run of handle_weapon
CommandCall == last.op = "handle_weapon"

\* the argument of the command: what follows the command token, without the
\* whitespace around it
Argument == Strip(SubSeq(last.content, Len(CommandToken) + 1, Len(last.content)))

\* the length of the last whitespace-separated token of a stripped argument
SuffixLen(arg) ==
    CHOOSE k \in 0..Len(arg) :
        /\ \A i \in (Len(arg) - k + 1)..Len(arg) : ~IsSpace(arg[i])
        /\ k = Len(arg) \/ IsSpace(arg[Len(arg) - k])

\* a token without its sign
Unsigned(token) ==
    IF token # <<>> /\ token[1] \in {"+", "-"} THEN Tail(token) ELSE token

\* the token spells an integer: an optional sign and decimal digits
Numeric(token) ==
    /\ Unsigned(token) # <<>>
    /\ \A i \in DOMAIN Unsigned(token) : IsDigit(Unsigned(token)[i])

----------------------------------------------------------------------------
(* Readers and a reload on one event loop: the handlers are coroutines,    *)
(* load_resources and the lookups are plain functions, so a coroutine      *)
(* gives up the loop only where it awaits.                                 *)

\* the order of the loop of load_resources: the insertion order of
\* resource_files
CategoryOrder == <<"maps", "weapons", "arc">>

\* a reader that is not handling a message
ReaderIdle ==
    [pc |-> "idle", kind |-> "none", category |-> "none", query |-> <<>>,
     seen |-> <<>>, result |-> None, pre |-> <<>>, post |-> <<>>]

\* a scheduler that lets a coroutine in wherever the other one stands
ParkedAnywhere(task) == TRUE

\* whether a coroutine stands where it has given up the loop: a handler
\* before its message arrives and at the `await` of its send, the caller of
\* reload_resources when no load is running
Parked(task) ==
    IF task = "reader" THEN tasks.reader.pc \in {"idle", "await"}
    ELSE tasks.reload.at = 0

\* one pass of the loop of load_resources (lines 43-57); `at` counts the
\* categories done, `before` keeps the mappings the load started from
ReloadStep ==
    LET at == tasks.reload.at
        category == CategoryOrder[at + 1]
    IN  /\ Parked("reader")
        /\ resources' = [resources EXCEPT ![category] = Loaded(category)]
        /\ tasks' = [tasks EXCEPT
                        !.reload = [at |-> IF at + 1 = Len(CategoryOrder) THEN 0
                                           ELSE at + 1,
                                    before |-> IF at = 0 THEN resources
                                               ELSE tasks.reload.before]]
        /\ UNCHANGED <<files, disk, strategy, last>>

\* what a reader has after an access to self.resources[category]: the
\* mapping it saw, and the category before and after the latest load
Seen(reader, result, pc) ==
    [reader EXCEPT !.seen = Append(reader.seen, resources[reader.category]),
                   !.result = result,
                   !.pre = <<tasks.reload.before[reader.category]>>,
                   !.post = <<resources[reader.category]>>,
                   !.pc = pc]

\* list_resources: one loop over self.resources[category]
list_resources(category) ==
    LET entries == resources[category].entries
    IN  Returned([i \in DOMAIN entries |-> _build_resource_info(category, entries[i])])

\* a handler takes a message and calls list_resources, or find_resource (by
\* itself or from find_weapon_with_level) as far as the end of its first
\* loop (lines 93-101)
BeginRead(kind, category, query) ==
    LET entries == resources[category].entries
        x == FirstExact(entries, Normalize(query))
        reader == [ReaderIdle EXCEPT !.kind = kind, !.category = category,
                                     !.query = query]
        hit == Returned(_build_resource_info(category, entries[x]))
    IN  /\ tasks.reader.pc = "idle"
        /\ Parked("reload")
        /\ kind = "find_weapon_with_level" => category = "weapons"
        /\ tasks' = [tasks EXCEPT !.reader =
                        IF kind = "list_resources"
                        THEN Seen(reader, list_resources(category), "await")
                        ELSE IF x = 0 THEN Seen(reader, None, "fuzzy")
                        ELSE IF kind = "find_weapon_with_level"
                        THEN Seen(reader, hit, "weapon_data")
                        ELSE Seen(reader, hit, "await")]
        /\ UNCHANGED <<files, disk, resources, strategy, last>>

\* the second loop of find_resource (lines 104-112)
FuzzyPass ==
    LET reader == tasks.reader
        entries == resources[reader.category].entries
        f == FirstFuzzy(entries, Normalize(reader.query))
        hit == Returned(_build_resource_info(reader.category, entries[f]))
    IN  /\ reader.pc = "fuzzy"
        /\ Parked("reload")
        /\ tasks' = [tasks EXCEPT !.reader =
                        IF f = 0 THEN Seen(reader, None, "await")
                        ELSE IF reader.kind = "find_weapon_with_level"
                        THEN Seen(reader, hit, "weapon_data")
                        ELSE Seen(reader, hit, "await")]
        /\ UNCHANGED <<files, disk, resources, strategy, last>>

\* find_weapon_with_level reads the weapon's entry again (line 206)
ReadWeaponData ==
    /\ tasks.reader.pc = "weapon_data"
    /\ Parked("reload")
    /\ tasks' = [tasks EXCEPT !.reader = Seen(tasks.reader, tasks.reader.result, "await")]
    /\ UNCHANGED <<files, disk, resources, strategy, last>>

\* the send the handler awaited is over and so is the handling
Resume ==
    /\ tasks.reader.pc = "await"
    /\ Parked("reload")
    /\ tasks' = [tasks EXCEPT !.reader = ReaderIdle]
    /\ UNCHANGED <<files, disk, resources, strategy, last>>

\* the mappings an index file holds in turn: a query "a" finds nothing exact
\* in the first and something exact, behind a substring match, in the second
ReloadVersions ==
    {<<Entry(<<"a", "b">>, <<>>, <<>>, <<>>, <<>>)>>,
     <<Entry(<<"b", "a">>, <<>>, <<>>, <<>>, <<>>),
       Entry(<<"a">>, <<>>, <<>>, <<>>, <<>>)>>}

ReloadFileStates == {Corrupt} \cup {Mapping(es) : es \in ReloadVersions}

\* the categories whose files change
ReloadCategories == {"maps", "weapons"}

ReaderKinds == {"find_resource", "list_resources", "find_weapon_with_level"}

\* the constructor has loaded the files; no message is being handled
InitReload ==
    /\ files \in [Categories -> {Missing} \cup {Mapping(es) : es \in ReloadVersions}]
    /\ files["arc"] = Missing
    /\ disk = {}
    /\ resources = [c \in Categories |->
                       IF files[c].kind = "missing" THEN Mapping(<<>>) ELSE files[c]]
    /\ strategy = NoStrategy
    /\ tasks = [reader |-> ReaderIdle, reload |-> [at |-> 0, before |-> resources]]
    /\ last = Idle

NextReload ==
    \/ \E c \in ReloadCategories, f \in ReloadFileStates : WriteFile(c, f)
    \/ \E c \in ReloadCategories : DeleteFile(c)
    \/ ReloadStep
    \/ \E k \in ReaderKinds, c \in ReloadCategories : BeginRead(k, c, <<"a">>)
    \/ FuzzyPass
    \/ ReadWeaponData
    \/ Resume

SpecReload == InitReload /\ [][NextReload]_vars

----------------------------------------------------------------------------
(* Properties of the interleaving, checked under SpecReload. *)

\* find_resource run in one piece on a mapping
FindIn(category, mapping, query) ==
    LET entries == mapping.entries
        x == FirstExact(entries, Normalize(query))
        f == FirstFuzzy(entries, Normalize(query))
    IN  IF x # 0 THEN Returned(_build_resource_info(category, entries[x]))
        ELSE IF f # 0 THEN Returned(_build_resource_info(category, entries[f]))
        ELSE None

\* the reader has finished its read and waits for its send
ReadDone == tasks.reader.pc = "await"

\* C17: a read of a category by find_resource, list_resources or
\* find_weapon_with_level, interleaved with a reload at the suspension points
\* of the handlers, sees one mapping in all its accesses, and that mapping is
\* the category's mapping from before the reload or the one after it; what
\* find_resource returns is what it returns on that mapping.
C17_ReadsSeeOneMapping ==
    ReadDone =>
        LET reader == tasks.reader
        IN  /\ \A i \in DOMAIN reader.seen : reader.seen[i] = reader.seen[1]
            /\ <<reader.seen[1]>> \in {reader.pre, reader.post}
            /\ reader.kind # "list_resources" =>
                  reader.result = FindIn(reader.category, reader.seen[1], reader.query)

\* a reload has replaced the category while the reader, which read it by two
\* loops before, is suspended
C17_Witness ==
    /\ ReadDone
    /\ tasks.reader.kind = "find_resource"
    /\ Len(tasks.reader.seen) = 2
    /\ tasks.reload.at = 0
    /\ resources[tasks.reader.category] # tasks.reader.seen[1]
    /\ tasks.reload.before[tasks.reader.category] = tasks.reader.seen[1]

====
